---- MODULE Spec2Model ----
(***************************************************************************)
(* Model of the BERT / Erlang External Term Format codec: the encoder      *)
(* (encoder.go, EncodeTo and its helpers) and the decoder                  *)
(* (bertrpc/decoder.go, Decode and its helpers), driven the way the test   *)
(* files drive them: a term is encoded into a fresh buffer, or a byte      *)
(* stream is wrapped in a bytes.Buffer, and Decode is called with a        *)
(* pointer to a target.                                                    *)
(*                                                                         *)
(* Bytes are naturals in 0..255.  A Go string and a []byte are sequences   *)
(* of bytes.  A Go integer of w bits is the sequence of its w/8 bytes,     *)
(* least significant first, in two's complement: conversions between       *)
(* widths, overflow and negation are then exactly the machine's.           *)
(***************************************************************************)
EXTENDS Integers, Sequences, FiniteSets, TLC

VARIABLES
    pc,       \* "idle" | "encoded" | "ready" | "done"
    term,     \* the term last handed to EncodeTo (NoTerm when none)
    buf,      \* the bytes.Buffer EncodeTo appended to
    encErr,   \* the error EncodeTo returned
    sample,   \* the stream the reader's bytes were taken from (NoSample when encoded)
    input,    \* the bytes the reader was created on
    r,        \* the unread bytes of the reader
    before,   \* the target as it was when Decode was called
    target,   \* the target after Decode
    err       \* the error Decode returned

vars == <<pc, term, buf, encErr, sample, input, r, before, target, err>>

(***************************************************************************)
(* Tag catalogue.                                                          *)
(***************************************************************************)
TagSmallInteger == 97
TagInteger == 98
TagDeprecatedAtom == 100
TagSmallTuple == 104
TagLargeTuple == 105
TagNil == 106
TagString == 107
TagList == 108
TagBinary == 109
TagBigInteger == 110
TagAtomUTF8 == 118
TagSmallAtomUTF8 == 119
TagETFVersion == 131

StringTypeAtom == 0
StringTypeString == 1

(***************************************************************************)
(* Errors, by identity.                                                    *)
(***************************************************************************)
Nil == "nil"
EOF == "EOF"
ErrRange == "value out of range"
ErrVersion == "incorrect Erlang Term version tag"
ErrUnhandledTarget == "unhandled decoding target"
ErrIntShort == "cannot decode integer, only n bytes read"
ErrBigInteger == "parse big integer error"
ErrIncorrectType == "incorrect type"
ErrTruncated == "truncated data"
ErrTruncatedList == "truncated List data"
ErrNoNil == "could not find nil"
ErrBertString == "cannot decode to bert.String"
ErrNotTuple == "cannot decode to struct: not a tuple"
ErrArity == "tuple arity does not match the number of fields"
ErrUnhandledType == "unhandled type"

(***************************************************************************)
(* Bytes and fixed-width integers.                                         *)
(***************************************************************************)
Min(a, b) == IF a < b THEN a ELSE b

\* make([]byte, n)
make(n) == [i \in 1..n |-> 0]

Reverse(s) == [i \in 1..Len(s) |-> s[Len(s) + 1 - i]]

\* a + b + c on equal-length little-endian byte sequences, carry dropped at the top
RECURSIVE AddC(_, _, _)
AddC(a, b, c) ==
    IF Len(a) = 0 THEN <<>>
    ELSE LET s == a[1] + b[1] + c
         IN  <<s % 256>> \o AddC(Tail(a), Tail(b), s \div 256)

\* a * d + c for a byte d, carry dropped at the top
RECURSIVE MulC(_, _, _)
MulC(a, d, c) ==
    IF Len(a) = 0 THEN <<>>
    ELSE LET s == a[1] * d + c
         IN  <<s % 256>> \o MulC(Tail(a), d, s \div 256)

\* -a in two's complement of a's width
Neg(a) == AddC([i \in 1..Len(a) |-> 255 - a[i]], make(Len(a)), 1)

IsNegative(a) == a[Len(a)] >= 128

\* conversion of a signed integer to a signed integer of n bytes
SignedTo(a, n) ==
    IF n <= Len(a) THEN SubSeq(a, 1, n)
    ELSE a \o [i \in 1..(n - Len(a)) |-> IF IsNegative(a) THEN 255 ELSE 0]

\* conversion of an unsigned integer to an integer of n bytes
UnsignedTo(a, n) ==
    IF n <= Len(a) THEN SubSeq(a, 1, n)
    ELSE a \o make(n - Len(a))

\* binary.BigEndian.Uint16 / Uint32 as a Go int
BigEndianUint(b) ==
    IF Len(b) = 2 THEN b[1] * 256 + b[2]
    ELSE ((b[1] * 256 + b[2]) * 256 + b[3]) * 256 + b[4]

(***************************************************************************)
(* The reader: bytes.Buffer.Read(p).  An empty buffer answers (0, EOF),    *)
(* or (0, nil) when p is empty; otherwise it copies min(len(p), unread)    *)
(* bytes into the front of p and leaves the rest of p as it was.           *)
(***************************************************************************)
Read(rd, p) ==
    IF Len(rd) = 0
    THEN [p |-> p, n |-> 0, err |-> IF Len(p) = 0 THEN Nil ELSE EOF, r |-> rd]
    ELSE LET k == Min(Len(p), Len(rd))
         IN  [p |-> SubSeq(rd, 1, k) \o SubSeq(p, k + 1, Len(p)),
              n |-> k, err |-> Nil,
              r |-> SubSeq(rd, k + 1, Len(rd))]

(***************************************************************************)
(* decodeInt.  Every function below is cut at its reads: the operator      *)
(* named after the function makes the first read, and one operator per     *)
(* later read takes what that read returned (p, n, err and the reader r    *)
(* after it) and goes on from there.                                       *)
(***************************************************************************)
IntFail(e, rest) == [v |-> make(8), err |-> e, r |-> rest]

\* case TagSmallInteger, after r.Read(byte1): byte1 is the buffer the tag was read into
decodeSmallInteger(a) ==
    IF a.err # Nil /\ a.err # EOF THEN IntFail(a.err, a.r)
    ELSE [v |-> UnsignedTo(<<a.p[1]>>, 8), err |-> Nil, r |-> a.r]

\* case TagInteger, after r.Read(byte4)
decodeInteger(a) ==
    IF a.err # Nil /\ a.err # EOF THEN IntFail(a.err, a.r)
    ELSE IF a.n < 4 THEN IntFail(ErrIntShort, a.r)
    ELSE [v |-> SignedTo(Reverse(a.p), 8), err |-> Nil, r |-> a.r]

\* the loop of the BigInteger case: value += d64 * B; B *= 256
RECURSIVE BigLoop(_, _, _, _, _)
BigLoop(byteD, idx, N, value, B) ==
    IF idx < N
    THEN BigLoop(byteD, idx + 1, N,
                 AddC(value, MulC(B, byteD[idx + 1], 0), 0),
                 MulC(B, 256, 0))
    ELSE value

\* if Sign == 1 { value = -value }
BigSigned(Sign, value) == IF Sign = 1 THEN Neg(value) ELSE value

\* case TagBigInteger, after r.Read(byteD)
decodeBigD(N, Sign, d) ==
    IF d.err # Nil /\ d.err # EOF THEN IntFail(d.err, d.r)
    ELSE IF d.n # N THEN IntFail(ErrBigInteger, d.r)
    ELSE [v |-> BigSigned(Sign, BigLoop(d.p, 0, N, make(8), UnsignedTo(<<1>>, 8))),
          err |-> Nil, r |-> d.r]

\* case TagBigInteger, after r.Read(byteSign)
decodeBigSign(N, bs) ==
    IF bs.err # Nil THEN IntFail(bs.err, bs.r)
    ELSE decodeBigD(N, bs.p[1], Read(bs.r, make(N)))

\* case TagBigInteger, after r.Read(byteN)
decodeBigN(bn) ==
    IF bn.err # Nil THEN IntFail(bn.err, bn.r)
    ELSE decodeBigSign(bn.p[1], Read(bn.r, make(1)))

\* after the read of the tag
decodeIntTag(t) ==
    IF t.err # Nil THEN IntFail(t.err, t.r)
    ELSE CASE t.p[1] = TagSmallInteger -> decodeSmallInteger(Read(t.r, t.p))
           [] t.p[1] = TagInteger -> decodeInteger(Read(t.r, make(4)))
           [] t.p[1] = TagBigInteger -> decodeBigN(Read(t.r, make(1)))
           [] OTHER -> IntFail(ErrIncorrectType, t.r)

decodeInt(rd) == decodeIntTag(Read(rd, make(1)))

(***************************************************************************)
(* Text: length-prefixed byte runs, and lists of code points.              *)
(***************************************************************************)
DataFail(e, rest) == [data |-> <<>>, err |-> e, r |-> rest]

\* after the read of the content
decodeContent(length, d) ==
    IF d.err # Nil /\ d.err # EOF THEN DataFail(d.err, d.r)
    ELSE IF d.n < length THEN DataFail(ErrTruncated, d.r)
    ELSE [data |-> d.p, err |-> Nil, r |-> d.r]

\* after the read of the length, which the bytes of l denote
decodeLength(l, length) ==
    IF l.err # Nil THEN DataFail(l.err, l.r)
    ELSE decodeContent(length, Read(l.r, make(length)))

\* int(byte1[0]), int(binary.BigEndian.Uint16(l)), int(binary.BigEndian.Uint32(l))
LengthOf(p) == IF Len(p) = 1 THEN p[1] ELSE BigEndianUint(p)

\* after the read of the length
decodeLengthRead(l) == decodeLength(l, LengthOf(l.p))

decodeString1(rd) == decodeLengthRead(Read(rd, make(1)))

decodeString2(rd) == decodeLengthRead(Read(rd, make(2)))

decodeString4(rd) == decodeLengthRead(Read(rd, make(4)))

\* decodeNil that looks only at the read's error, not at the byte
decodeNil_NoCheck(t) ==
    IF t.err # Nil /\ t.err # EOF THEN [err |-> t.err, r |-> t.r]
    ELSE [err |-> Nil, r |-> t.r]

\* after the read of the byte
decodeNilRead(t) ==
    IF t.err # Nil /\ t.err # EOF THEN [err |-> t.err, r |-> t.r]
    ELSE IF t.p[1] # TagNil THEN [err |-> ErrNoNil, r |-> t.r]
    ELSE [err |-> Nil, r |-> t.r]

decodeNil(rd) == decodeNilRead(Read(rd, make(1)))

\* return s, err / return s, nil
ListEnd(s, e) == [data |-> s, err |-> e.err, r |-> e.r]

\* the loop of decodeCharList: i runs from 1 to count, s collects the runes
\* (rune(char) keeps the low 32 bits of the int64)
RECURSIVE CharLoop(_, _, _, _)
RECURSIVE CharNext(_, _, _, _)

\* after decodeInt
CharNext(c, i, count, s) ==
    IF c.err # Nil THEN DataFail(c.err, c.r)
    ELSE CharLoop(c.r, i + 1, count, Append(s, SignedTo(c.v, 4)))

CharLoop(rd, i, count, s) ==
    IF i <= count THEN CharNext(decodeInt(rd), i, count, s)
    ELSE ListEnd(s, decodeNil(rd))

\* after the read of the count
decodeCount(c) ==
    IF c.err # Nil THEN DataFail(c.err, c.r)
    ELSE IF c.n < 4 THEN DataFail(ErrTruncatedList, c.r)
    ELSE CharLoop(c.r, 1, BigEndianUint(c.p), <<>>)

decodeCharList(rd) == decodeCount(Read(rd, make(4)))

\* string(rune): the UTF-8 encoding of one rune, U+FFFD for a rune that is
\* negative, a surrogate or above U+10FFFF
RuneError == <<239, 191, 189>>

Utf8(c) ==
    IF c < 128 THEN <<c>>
    ELSE IF c < 2048 THEN <<192 + (c \div 64), 128 + (c % 64)>>
    ELSE IF c >= 55296 /\ c <= 57343 THEN RuneError
    ELSE IF c < 65536
         THEN <<224 + (c \div 4096), 128 + ((c \div 64) % 64), 128 + (c % 64)>>
    ELSE IF c <= 1114111
         THEN <<240 + (c \div 262144), 128 + ((c \div 4096) % 64),
                128 + ((c \div 64) % 64), 128 + (c % 64)>>
    ELSE RuneError

EncodeRune(rn) ==
    IF IsNegative(rn) THEN RuneError
    ELSE Utf8(rn[1] + 256 * rn[2] + 65536 * rn[3] + 16777216 * rn[4])

\* string([]rune)
RECURSIVE RunesToString(_)
RunesToString(s) ==
    IF Len(s) = 0 THEN <<>> ELSE EncodeRune(s[1]) \o RunesToString(Tail(s))

\* return string(data), err for data []byte
StringOfBytes(d) == [s |-> d.data, err |-> d.err, r |-> d.r]

\* return string(data), err for data []rune
StringOfRunes(d) == [s |-> RunesToString(d.data), err |-> d.err, r |-> d.r]

\* decodeString without TagString among the 2-byte-length tags
decodeString_NoStringTag(t) ==
    IF t.err # Nil THEN [s |-> <<>>, err |-> t.err, r |-> t.r]
    ELSE CASE t.p[1] = TagSmallAtomUTF8 -> StringOfBytes(decodeString1(t.r))
           [] t.p[1] \in {TagDeprecatedAtom, TagAtomUTF8} ->
                StringOfBytes(decodeString2(t.r))
           [] t.p[1] = TagBinary -> StringOfBytes(decodeString4(t.r))
           [] t.p[1] = TagList -> StringOfRunes(decodeCharList(t.r))
           [] OTHER -> [s |-> <<>>, err |-> ErrIncorrectType, r |-> t.r]

\* after the read of the tag
decodeStringTag(t) ==
    IF t.err # Nil THEN [s |-> <<>>, err |-> t.err, r |-> t.r]
    ELSE CASE t.p[1] = TagSmallAtomUTF8 -> StringOfBytes(decodeString1(t.r))
           [] t.p[1] \in {TagDeprecatedAtom, TagAtomUTF8, TagString} ->
                StringOfBytes(decodeString2(t.r))
           [] t.p[1] = TagBinary -> StringOfBytes(decodeString4(t.r))
           [] t.p[1] = TagList -> StringOfRunes(decodeCharList(t.r))
           [] OTHER -> [s |-> <<>>, err |-> ErrIncorrectType, r |-> t.r]

decodeString(rd) == decodeStringTag(Read(rd, make(1)))

(***************************************************************************)
(* Targets.  The value a target pointer points to is                       *)
(* [kind, val, etype, fields]: kind is its reflect.Kind ("BertString" for  *)
(* the struct type named String); val the bytes of an integer of that      *)
(* width, of a string, or of the Value of a bert.String; etype the         *)
(* ErlangType of a bert.String; fields the fields of a struct, values of   *)
(* the same shape.                                                         *)
(***************************************************************************)
IntKinds == {"Int", "Int16", "Int32", "Int64"}

IntWidth(kind) ==
    CASE kind = "Int8" -> 1
      [] kind = "Int16" -> 2
      [] kind = "Int32" -> 4
      [] OTHER -> 8

\* the end of decodeBertString: an error of the string decoding is returned,
\* otherwise Value and ErlangType are set
SetBertString(val, d, strType) ==
    IF d.err # Nil THEN [val |-> val, err |-> d.err, r |-> d.r]
    ELSE [val |-> [val EXCEPT !.val = d.s, !.etype = strType], err |-> Nil, r |-> d.r]

\* after the read of the tag
decodeBertStringTag(t, val) ==
    IF t.err # Nil THEN [val |-> val, err |-> t.err, r |-> t.r]
    ELSE CASE t.p[1] = TagSmallAtomUTF8 ->
                SetBertString(val, StringOfBytes(decodeString1(t.r)), StringTypeAtom)
           [] t.p[1] \in {TagDeprecatedAtom, TagAtomUTF8} ->
                SetBertString(val, StringOfBytes(decodeString2(t.r)), StringTypeAtom)
           [] t.p[1] = TagString ->
                SetBertString(val, StringOfBytes(decodeString2(t.r)), StringTypeString)
           [] t.p[1] = TagBinary ->
                SetBertString(val, StringOfBytes(decodeString4(t.r)), StringTypeString)
           [] t.p[1] = TagList ->
                SetBertString(val, StringOfRunes(decodeCharList(t.r)), StringTypeString)
           [] OTHER -> [val |-> val, err |-> ErrBertString, r |-> t.r]

decodeBertString(rd, val) == decodeBertStringTag(Read(rd, make(1)), val)

\* i, err := decodeInt(r); if err == nil { val.SetInt(i) }; return err
SetInt(val, d) ==
    [val |-> IF d.err = Nil THEN [val EXCEPT !.val = SignedTo(d.v, IntWidth(val.kind))]
             ELSE val,
     err |-> d.err, r |-> d.r]

\* s, err := decodeString(r); if err == nil { val.SetString(s) }; return err
SetString(val, d) ==
    [val |-> IF d.err = Nil THEN [val EXCEPT !.val = d.s] ELSE val,
     err |-> d.err, r |-> d.r]

\* the two without the test of err
SetInt_Always(val, d) ==
    [val |-> [val EXCEPT !.val = SignedTo(d.v, IntWidth(val.kind))],
     err |-> d.err, r |-> d.r]

SetString_Always(val, d) == [val |-> [val EXCEPT !.val = d.s], err |-> d.err, r |-> d.r]

RECURSIVE decodeData(_, _)
RECURSIVE decodeStruct(_, _)
RECURSIVE decodeFields(_, _, _)
RECURSIVE decodeField(_, _, _)

\* after the decoding of one field
decodeField(d, val, done) ==
    IF d.err # Nil THEN [val |-> val, err |-> d.err, r |-> d.r]
    ELSE decodeFields(d.r, val, Append(done, d.val))

\* the fields of a struct, decoded in declared order; done collects them
decodeFields(rd, val, done) ==
    IF Len(done) = Len(val.fields)
    THEN [val |-> [val EXCEPT !.fields = done], err |-> Nil, r |-> rd]
    ELSE decodeField(decodeData(rd, val.fields[Len(done) + 1]), val, done)

\* the arity must be the number of fields
decodeArity(arity, rest, val) ==
    IF arity # Len(val.fields) THEN [val |-> val, err |-> ErrArity, r |-> rest]
    ELSE decodeFields(rest, val, <<>>)

\* after the read of the arity, of w bytes
decodeArityRead(a, w, val) ==
    IF a.err # Nil THEN [val |-> val, err |-> a.err, r |-> a.r]
    ELSE IF a.n < w THEN [val |-> val, err |-> ErrTruncated, r |-> a.r]
    ELSE decodeArity(LengthOf(a.p), a.r, val)

\* after the read of the tag
decodeStructTag(t, val) ==
    IF t.err # Nil THEN [val |-> val, err |-> t.err, r |-> t.r]
    ELSE CASE t.p[1] = TagSmallTuple -> decodeArityRead(Read(t.r, make(1)), 1, val)
           [] t.p[1] = TagLargeTuple -> decodeArityRead(Read(t.r, make(4)), 4, val)
           [] OTHER -> [val |-> val, err |-> ErrNotTuple, r |-> t.r]

\* a tuple into a struct: the tag is SmallTuple or LargeTuple, the arity is the
\* number of fields, the fields are bound only when every element decoded
decodeStruct(rd, val) == decodeStructTag(Read(rd, make(1)), val)

\* decodeData that sets the target whether or not the decoding failed
decodeData_SetOnError(rd, val) ==
    CASE val.kind = "Int8" -> [val |-> val, err |-> ErrRange, r |-> rd]
      [] val.kind \in IntKinds -> SetInt_Always(val, decodeInt(rd))
      [] val.kind = "String" -> SetString_Always(val, decodeString(rd))
      [] val.kind = "BertString" -> decodeBertString(rd, val)
      [] val.kind = "Struct" -> decodeStruct(rd, val)
      [] OTHER -> [val |-> val, err |-> ErrUnhandledTarget, r |-> rd]

\* decodeData that takes an 8-bit target for an integer target like the others
decodeData_Int8AsInt(rd, val) ==
    CASE val.kind \in IntKinds \cup {"Int8"} -> SetInt(val, decodeInt(rd))
      [] val.kind = "String" -> SetString(val, decodeString(rd))
      [] val.kind = "BertString" -> decodeBertString(rd, val)
      [] val.kind = "Struct" -> decodeStruct(rd, val)
      [] OTHER -> [val |-> val, err |-> ErrUnhandledTarget, r |-> rd]

\* decodeData that takes every struct for the bert.String wrapper
decodeData_EveryStructIsString(rd, val) ==
    CASE val.kind = "Int8" -> [val |-> val, err |-> ErrRange, r |-> rd]
      [] val.kind \in IntKinds -> SetInt(val, decodeInt(rd))
      [] val.kind = "String" -> SetString(val, decodeString(rd))
      [] val.kind \in {"BertString", "Struct"} -> decodeBertString(rd, val)
      [] OTHER -> [val |-> val, err |-> ErrUnhandledTarget, r |-> rd]

\* val is the value term points to; the result's val is that value after the call
decodeData(rd, val) ==
    CASE val.kind = "Int8" -> [val |-> val, err |-> ErrRange, r |-> rd]
      [] val.kind \in IntKinds -> SetInt(val, decodeInt(rd))
      [] val.kind = "String" -> SetString(val, decodeString(rd))
      [] val.kind = "BertString" -> decodeBertString(rd, val)
      [] val.kind = "Struct" -> decodeStruct(rd, val)
      [] OTHER -> [val |-> val, err |-> ErrUnhandledTarget, r |-> rd]

\* after the read of the version marker
DecodeVersion(t, val) ==
    IF t.err # Nil THEN [val |-> val, err |-> t.err, r |-> t.r]
    ELSE IF t.p[1] # TagETFVersion THEN [val |-> val, err |-> ErrVersion, r |-> t.r]
    ELSE decodeData(t.r, val)

Decode(rd, val) == DecodeVersion(Read(rd, make(1)), val)

(***************************************************************************)
(* The encoder.  A term is [type, v, elems]: type is the Go type EncodeTo  *)
(* switches on, v the string's bytes (Atom, string) or the integer's bytes *)
(* in the width of its type, elems the elements of a Tuple or a slice.     *)
(***************************************************************************)
SignedTypes == {"int", "int8", "int16", "int32"}
UnsignedTypes == {"uint", "uint8", "uint16", "uint32"}

\* binary.Write(buf, binary.BigEndian, x) for an unsigned x of w bytes
PutUint(n, w) == [i \in 1..w |-> (n \div (256 ^ (w - i))) % 256]

encodeAtom(b, str) ==
    IF Len(str) <= 255
    THEN [buf |-> b \o <<TagSmallAtomUTF8, Len(str)>> \o str, err |-> Nil]
    ELSE [buf |-> b \o <<TagAtomUTF8>> \o PutUint(Len(str) % 65536, 2) \o str, err |-> Nil]

encodeString(b, str) ==
    [buf |-> b \o <<TagBinary>> \o PutUint(Len(str), 4) \o str, err |-> Nil]

\* encodeInt that tests only i <= 255
encodeInt_NoLowerBound(b, i) ==
    IF IsNegative(i) \/ (i[2] = 0 /\ i[3] = 0 /\ i[4] = 0)
    THEN [buf |-> b \o <<TagSmallInteger, i[1]>>, err |-> Nil]
    ELSE [buf |-> b \o <<TagInteger>> \o Reverse(i), err |-> Nil]

\* i is an int32
encodeInt(b, i) ==
    IF ~IsNegative(i) /\ (i[2] = 0 /\ i[3] = 0 /\ i[4] = 0)
    THEN [buf |-> b \o <<TagSmallInteger, i[1]>>, err |-> Nil]
    ELSE [buf |-> b \o <<TagInteger>> \o Reverse(i), err |-> Nil]

RECURSIVE EncodeTo(_, _)
RECURSIVE encodeElems(_, _)
RECURSIVE encodeElem(_, _)

\* after EncodeTo of one element: its error ends the loop
encodeElem(e, rest) == IF e.err # Nil THEN e ELSE encodeElems(e.buf, rest)

\* the element loop of encodeTuple and encodeList: stops at the first error,
\* what was appended stays
encodeElems(b, elems) ==
    IF Len(elems) = 0 THEN [buf |-> b, err |-> Nil]
    ELSE encodeElem(EncodeTo(b, elems[1]), Tail(elems))

encodeTuple(b, tuple) ==
    IF Len(tuple) <= 255
    THEN encodeElems(b \o <<TagSmallTuple, Len(tuple)>>, tuple)
    ELSE encodeElems(b \o <<TagLargeTuple>> \o PutUint(Len(tuple), 4), tuple)

\* after the elements: nil terminates the list
encodeListEnd(e) == IF e.err # Nil THEN e ELSE [buf |-> e.buf \o <<TagNil>>, err |-> Nil]

encodeList(b, list) ==
    encodeListEnd(encodeElems(b \o <<TagList>> \o PutUint(Len(list), 4), list))

EncodeTo(b, t) ==
    CASE t.type = "Atom" -> encodeAtom(b, t.v)
      [] t.type = "string" -> encodeString(b, t.v)
      [] t.type \in SignedTypes -> encodeInt(b, SignedTo(t.v, 4))
      [] t.type \in UnsignedTypes -> encodeInt(b, UnsignedTo(t.v, 4))
      [] t.type = "Tuple" -> encodeTuple(b, t.elems)
      [] t.type = "slice" -> encodeList(b, t.elems)
      [] OTHER -> [buf |-> b, err |-> ErrUnhandledType]

(***************************************************************************)
(* Inputs.  The byte streams are built the way the tests write them, from  *)
(* a table of characters (code point and UTF-8 bytes), and every stream    *)
(* may be cut short at any length.                                         *)
(***************************************************************************)
MaxText == 2      \* code points in a text
MaxArity == 3     \* elements of a tuple, fields of a struct
MaxBigLen == 9    \* magnitude bytes of a BigInteger

Chars == { [cp |-> 72,     utf8 |-> <<72>>],
           [cp |-> 233,    utf8 |-> <<195, 169>>],
           [cp |-> 8364,   utf8 |-> <<226, 130, 172>>],
           [cp |-> 128406, utf8 |-> <<240, 159, 150, 150>>] }

Texts == UNION { [1..n -> Chars] : n \in 0..MaxText }

RECURSIVE Utf8Of(_)
Utf8Of(c) == IF Len(c) = 0 THEN <<>> ELSE c[1].utf8 \o Utf8Of(Tail(c))

\* an integer term for a code point, in the encoder's form or as a BigInteger
CharTerm(cp, big) ==
    IF big THEN <<TagBigInteger, 3, 0, cp % 256, (cp \div 256) % 256, cp \div 65536>>
    ELSE IF cp <= 255 THEN <<TagSmallInteger, cp>>
    ELSE <<TagInteger>> \o PutUint(cp, 4)

RECURSIVE CharTerms(_, _)
CharTerms(c, big) ==
    IF Len(c) = 0 THEN <<>> ELSE CharTerm(c[1].cp, big) \o CharTerms(Tail(c), big)

RECURSIVE Concat(_)
Concat(ss) == IF Len(ss) = 0 THEN <<>> ELSE ss[1] \o Concat(Tail(ss))

\* 64 times U+1F596, the long atom of TestDecodeToString
LongText == [i \in 1..256 |-> <<240, 159, 150, 150>>[((i - 1) % 4) + 1]]

Sample(form, wire, text, elems, sign, mag) ==
    [form |-> form, wire |-> <<TagETFVersion>> \o wire, text |-> text,
     elems |-> elems, sign |-> sign, mag |-> mag]

NoSample == [form |-> "none", wire |-> <<>>, text |-> <<>>, elems |-> <<>>,
             sign |-> 0, mag |-> <<>>]

IntPayloads == { <<255, 255, 255, 0>>, <<0, 0, 1, 0>>, <<128, 0, 0, 0>>,
                 <<127, 255, 255, 255>> }

BigMags(N) ==
    IF N = 0 THEN { <<>> }
    ELSE { [i \in 1..N |-> IF i = N THEN top ELSE low] :
             top \in {1, 128}, low \in {0, 255} } \cup (IF N = 1 THEN { <<5>> } ELSE {})

IntSamples ==
    { Sample("SmallInteger", <<TagSmallInteger, v>>, <<>>, <<>>, 0, <<>>) :
        v \in {0, 42, 255} }
    \cup { Sample("Integer", <<TagInteger>> \o b, <<>>, <<>>, 0, <<>>) : b \in IntPayloads }
    \cup UNION { { Sample("BigInteger", <<TagBigInteger, N, sg>> \o d, <<>>, <<>>, sg, d) :
                     sg \in {0, 1}, d \in BigMags(N) } : N \in 0..MaxBigLen }

TextForms == { "SmallAtomUTF8", "AtomUTF8", "DeprecatedAtom", "String", "Binary",
               "List", "ListOfBig" }

TextWire(form, c) ==
    LET b == Utf8Of(c)
    IN  CASE form = "SmallAtomUTF8" -> <<TagSmallAtomUTF8, Len(b)>> \o b
          [] form = "AtomUTF8" -> <<TagAtomUTF8>> \o PutUint(Len(b), 2) \o b
          [] form = "DeprecatedAtom" -> <<TagDeprecatedAtom>> \o PutUint(Len(b), 2) \o b
          [] form = "String" -> <<TagString>> \o PutUint(Len(b), 2) \o b
          [] form = "Binary" -> <<TagBinary>> \o PutUint(Len(b), 4) \o b
          [] form = "List" ->
                <<TagList>> \o PutUint(Len(c), 4) \o CharTerms(c, FALSE) \o <<TagNil>>
          [] OTHER ->
                <<TagList>> \o PutUint(Len(c), 4) \o CharTerms(c, TRUE) \o <<TagNil>>

TextSamples ==
    { Sample(f, TextWire(f, c), Utf8Of(c), <<>>, 0, <<>>) : f \in TextForms, c \in Texts }
    \cup { Sample("AtomUTF8", <<TagAtomUTF8, 1, 0>> \o LongText, LongText, <<>>, 0, <<>>) }

\* a list whose elements are all there but whose last byte is not Nil
BadEnds == {0, TagSmallInteger, TagString}

ListBadEndSamples ==
    { Sample("ListBadEnd",
             <<TagList>> \o PutUint(Len(c), 4) \o CharTerms(c, FALSE) \o <<e>>,
             Utf8Of(c), <<>>, 0, <<>>) : c \in Texts, e \in BadEnds }

\* the elements of the tuples: a legacy atom and a binary
ElemTerms == { [wire |-> <<TagDeprecatedAtom, 0, 2, 111, 107>>, text |-> <<111, 107>>],
               [wire |-> <<TagBinary, 0, 0, 0, 2, 72, 105>>, text |-> <<72, 105>>] }

TupleElems == UNION { [1..n -> ElemTerms] : n \in 0..MaxArity }

TupleSamples ==
    { Sample("SmallTuple",
             <<TagSmallTuple, Len(es)>> \o Concat([i \in 1..Len(es) |-> es[i].wire]),
             <<>>, [i \in 1..Len(es) |-> es[i].text], 0, <<>>) : es \in TupleElems }
    \cup
    { Sample("LargeTuple",
             <<TagLargeTuple>> \o PutUint(Len(es), 4)
                 \o Concat([i \in 1..Len(es) |-> es[i].wire]),
             <<>>, [i \in 1..Len(es) |-> es[i].text], 0, <<>>) :
        es \in { x \in TupleElems : Len(x) = 2 } }

\* no version marker, a wrong one, a tag no target accepts, Nil alone
OtherSamples ==
    { [NoSample EXCEPT !.form = "Other", !.wire = w] :
        w \in { <<130, TagSmallInteger, 42>>, <<TagSmallInteger, 42>>,
                <<TagETFVersion, 70, 0, 0>>, <<TagETFVersion, TagNil>>,
                <<TagETFVersion, TagList, 0, 0, 0, 1, TagSmallAtomUTF8, 1, 72, TagNil>> } }

Samples == IntSamples \cup TextSamples \cup ListBadEndSamples \cup TupleSamples
           \cup OtherSamples

(***************************************************************************)
(* The targets Decode is called with: each kind, holding a value that is   *)
(* not its zero value (and the zero value, for int and string).            *)
(***************************************************************************)
Seven(w) == [i \in 1..w |-> IF i = 1 THEN 7 ELSE 0]

Value(kind, bytes) == [kind |-> kind, val |-> bytes, etype |-> 0, fields |-> <<>>]

StringTarget == Value("String", <<120>>)

StructOf(fs) == [kind |-> "Struct", val |-> <<>>, etype |-> 0, fields |-> fs]

StructTarget(n) == StructOf([i \in 1..n |-> StringTarget])

Targets ==
    { Value(k, Seven(IntWidth(k))) : k \in IntKinds \cup {"Int8"} }
    \cup { Value("Int", make(8)), Value("Int8", make(1)) }
    \cup { StringTarget, Value("String", <<>>) }
    \cup { [Value("BertString", <<120>>) EXCEPT !.etype = StringTypeString] }
    \cup { StructTarget(n) : n \in 0..MaxArity }
    \cup { StructOf(<<Value("Int", Seven(8)), StringTarget>>),
           StructOf(<<StringTarget, StructTarget(1)>>) }
    \cup { Value("Slice", <<>>) }

NoTarget == Value("none", <<>>)

(***************************************************************************)
(* The terms EncodeTo is called with.                                      *)
(***************************************************************************)
IntBytes(w) ==
    CASE w = 1 -> { <<b>> : b \in {0, 1, 127, 128, 255} }
      [] w = 2 -> { <<lo, hi>> : lo \in {0, 1, 255}, hi \in {0, 127, 128, 255} }
      [] w = 4 -> { <<lo, m, m, hi>> : lo \in {0, 1, 255}, m \in {0, 255},
                                       hi \in {0, 127, 128, 255} }
      [] OTHER -> { <<lo, m, m, b4, h, h, h, h>> : lo \in {0, 255}, m \in {0, 255},
                                                   b4 \in {0, 127, 128, 255},
                                                   h \in {0, 1, 255} }

TypeWidth(type) ==
    CASE type \in {"int8", "uint8"} -> 1
      [] type \in {"int16", "uint16"} -> 2
      [] type \in {"int32", "uint32"} -> 4
      [] OTHER -> 8

Scalar(type, bytes) == [type |-> type, v |-> bytes, elems |-> <<>>]

IntTerms ==
    UNION { { Scalar(ty, b) : b \in IntBytes(TypeWidth(ty)) } :
              ty \in SignedTypes \cup UnsignedTypes }

A(str) == Scalar("Atom", str)

S(str) == Scalar("string", str)

T(el) == [type |-> "Tuple", v |-> <<>>, elems |-> el]

L(el) == [type |-> "slice", v |-> <<>>, elems |-> el]

GoInt(n) == Scalar("int", UnsignedTo(<<n>>, 8))

Terms ==
    IntTerms
    \cup { Scalar("int64", Seven(8)), Scalar("uint64", Seven(8)) }
    \cup { A(Utf8Of(c)) : c \in Texts } \cup { A(LongText) }
    \cup { S(Utf8Of(c)) : c \in Texts }
    \cup { T(<<>>), T(<<A(<<111, 107>>)>>), T(<<A(<<111, 107>>), A(<<72, 105>>)>>),
           T(<<GoInt(1), S(<<72>>)>>),
           T(<<A(<<111, 107>>), T(<<A(<<72>>)>>)>>),
           T(<<GoInt(1), Scalar("int64", Seven(8))>>) }
    \cup { L(<<>>), L(<<GoInt(1), GoInt(2)>>), L(<<GoInt(72), GoInt(105)>>),
           L(<<A(<<111, 107>>)>>) }

NoTerm == Scalar("none", <<>>)

(***************************************************************************)
(* The state machine.                                                      *)
(***************************************************************************)
Init ==
    /\ pc = "idle"
    /\ term = NoTerm
    /\ buf = <<>>
    /\ encErr = Nil
    /\ sample = NoSample
    /\ input = <<>>
    /\ r = <<>>
    /\ before = NoTarget
    /\ target = NoTarget
    /\ err = Nil

\* EncodeTo(buf, t) on a fresh buffer
Encoded(e) == buf' = e.buf /\ encErr' = e.err

CallEncodeTo(t) ==
    /\ pc = "idle"
    /\ Encoded(EncodeTo(<<>>, t))
    /\ term' = t
    /\ pc' = "encoded"
    /\ sample' = NoSample
    /\ input' = <<>>
    /\ r' = <<>>
    /\ before' = NoTarget
    /\ target' = NoTarget
    /\ err' = Nil

\* bytes.NewBuffer on the version marker and what EncodeTo wrote
NewBufferEncoded ==
    /\ pc = "encoded"
    /\ encErr = Nil
    /\ input' = <<TagETFVersion>> \o buf
    /\ r' = <<TagETFVersion>> \o buf
    /\ pc' = "ready"
    /\ UNCHANGED <<term, buf, encErr, sample, before, target, err>>

\* bytes.NewBuffer on the first k bytes of a stream
NewBuffer(s, k) ==
    /\ pc = "idle"
    /\ input' = SubSeq(s.wire, 1, k)
    /\ r' = SubSeq(s.wire, 1, k)
    /\ sample' = s
    /\ term' = NoTerm
    /\ buf' = <<>>
    /\ encErr' = Nil
    /\ before' = NoTarget
    /\ target' = NoTarget
    /\ err' = Nil
    /\ pc' = "ready"

\* Decode(r, &tgt)
Decoded(d) == target' = d.val /\ err' = d.err /\ r' = d.r

CallDecode(tgt) ==
    /\ pc = "ready"
    /\ Decoded(Decode(r, tgt))
    /\ before' = tgt
    /\ pc' = "done"
    /\ UNCHANGED <<term, buf, encErr, sample, input>>

Next ==
    \/ pc = "idle" /\ \E t \in Terms : CallEncodeTo(t)
    \/ NewBufferEncoded
    \/ pc = "idle" /\ \E s \in Samples : \E k \in 0..Len(s.wire) : NewBuffer(s, k)
    \/ pc = "ready" /\ \E tgt \in Targets : CallDecode(tgt)

Spec == Init /\ [][Next]_vars

(***************************************************************************)
(* The integer a byte sequence denotes, as sign and magnitude (magnitude   *)
(* least significant byte first, without leading zero bytes): the values   *)
(* the properties below speak of are mathematical integers, of any size.   *)
(***************************************************************************)
RECURSIVE Strip(_)
Strip(m) ==
    IF Len(m) = 0 THEN <<>>
    ELSE IF m[Len(m)] # 0 THEN m
    ELSE Strip(SubSeq(m, 1, Len(m) - 1))

Number(neg, mag) == [neg |-> neg /\ Len(Strip(mag)) > 0, mag |-> Strip(mag)]

SignedValue(a) == IF IsNegative(a) THEN Number(TRUE, Neg(a)) ELSE Number(FALSE, a)

UnsignedValue(a) == Number(FALSE, a)

\* -2^31 <= v <= 2^31 - 1
InInt32(v) ==
    \/ Len(v.mag) < 4
    \/ Len(v.mag) = 4 /\ v.mag[4] < 128
    \/ v.neg /\ v.mag = <<0, 0, 0, 128>>

IntTypes == SignedTypes \cup UnsignedTypes

TermValue(t) == IF t.type \in SignedTypes THEN SignedValue(t.v) ELSE UnsignedValue(t.v)

IntForms == {"SmallInteger", "Integer", "BigInteger"}

Whole == input = sample.wire

(***************************************************************************)
(* C1.  Round trip: a term of the supported domain (atom, text, integer    *)
(* in the 32-bit range, tuple, list), encoded by EncodeTo and decoded by   *)
(* Decode from the version marker and the encoded bytes into the matching  *)
(* target, comes back equal.                                               *)
(***************************************************************************)
RECURSIVE Supported(_)
Supported(t) ==
    CASE t.type \in {"Atom", "string"} -> TRUE
      [] t.type \in IntTypes -> InInt32(TermValue(t))
      [] t.type \in {"Tuple", "slice"} -> \A i \in 1..Len(t.elems) : Supported(t.elems[i])
      [] OTHER -> FALSE

RECURSIVE Matching(_, _)
Matching(tgt, t) ==
    CASE t.type \in {"Atom", "string"} -> tgt.kind = "String"
      [] t.type \in IntTypes -> tgt.kind = "Int"
      [] t.type = "Tuple" ->
            /\ tgt.kind = "Struct"
            /\ Len(tgt.fields) = Len(t.elems)
            /\ \A i \in 1..Len(t.elems) : Matching(tgt.fields[i], t.elems[i])
      [] t.type = "slice" -> tgt.kind = "Slice"
      [] OTHER -> FALSE

\* tgt matches t: it holds t's value
RECURSIVE Holds(_, _)
Holds(tgt, t) ==
    CASE t.type \in {"Atom", "string"} -> tgt.val = t.v
      [] t.type \in IntTypes -> SignedValue(tgt.val) = TermValue(t)
      [] t.type = "Tuple" -> \A i \in 1..Len(t.elems) : Holds(tgt.fields[i], t.elems[i])
      [] OTHER -> Len(tgt.fields) = Len(t.elems)

RoundTripCase ==
    /\ pc = "done"
    /\ term # NoTerm
    /\ Supported(term)
    /\ Matching(before, term)

C1_RoundTrip == RoundTripCase => (err = Nil /\ Holds(target, term))

\* the same without the lists: what the decoder has a target for
C1_RoundTripNoList ==
    (RoundTripCase /\ term.type # "slice") => (err = Nil /\ Holds(target, term))

(***************************************************************************)
(* C2.  Truncated input is an error: Decode of a strict prefix of a        *)
(* well-formed stream (version marker and one integer term into an integer *)
(* target, version marker and one text term into a text target) returns    *)
(* an error.                                                               *)
(***************************************************************************)
Truncated == Len(input) < Len(sample.wire)

C2_TruncatedIsError ==
    (/\ pc = "done"
     /\ Truncated
     /\ \/ before.kind \in IntKinds /\ sample.form \in IntForms
        \/ before.kind = "String" /\ sample.form \in TextForms)
    => err # Nil

(***************************************************************************)
(* C3.  Arity enforcement: a tuple decoded into a struct fails, and binds  *)
(* no field, when its arity is not the number of fields; when it is, the   *)
(* call succeeds and field i holds the i-th element, in wire order.        *)
(***************************************************************************)
TupleIntoStruct ==
    /\ pc = "done"
    /\ sample.form \in {"SmallTuple", "LargeTuple"}
    /\ Whole
    /\ before.kind = "Struct"
    /\ \A i \in 1..Len(before.fields) : before.fields[i].kind = "String"

C3_ArityEnforced ==
    TupleIntoStruct =>
        IF Len(sample.elems) = Len(before.fields)
        THEN /\ err = Nil
             /\ \A i \in 1..Len(sample.elems) : target.fields[i].val = sample.elems[i]
        ELSE err # Nil /\ target = before

C3_Witness ==
    /\ TupleIntoStruct
    /\ Len(sample.elems) = 2
    /\ Len(before.fields) = 3
    /\ err = ErrArity

(***************************************************************************)
(* C4.  Width rejection: Decode of the version marker and an integer term  *)
(* (SmallInteger, Integer or BigInteger, whatever its value) into an 8-bit *)
(* signed target fails with ErrRange and leaves the target as it was.      *)
(***************************************************************************)
IntoInt8 ==
    /\ pc = "done"
    /\ sample.form \in IntForms
    /\ Whole
    /\ before.kind = "Int8"

C4_Int8Rejected == IntoInt8 => (err = ErrRange /\ target = before)

C4_Witness ==
    /\ IntoInt8
    /\ input = <<TagETFVersion, TagSmallInteger, 42>>
    /\ err = ErrRange

(***************************************************************************)
(* C5.  Text tag normalization: a text decoded into a plain text target is *)
(* the same string whichever accepted form carries it (1-byte, 2-byte or   *)
(* 4-byte length and the UTF-8 bytes, or a list of its code points as      *)
(* integer terms and Nil); a term with any other tag is an error.          *)
(***************************************************************************)
TextTags == {TagSmallAtomUTF8, TagAtomUTF8, TagDeprecatedAtom, TagString, TagBinary, TagList}

C5_TextNormalized ==
    (pc = "done" /\ before.kind = "String") =>
        /\ (sample.form \in TextForms /\ Whole) => (err = Nil /\ target.val = sample.text)
        /\ (Len(input) >= 2 /\ input[1] = TagETFVersion /\ input[2] \notin TextTags)
              => (err # Nil /\ target = before)

C5_Witness ==
    /\ pc = "done"
    /\ before.kind = "String"
    /\ sample.form = "List"
    /\ Whole
    /\ sample.text = <<195, 169, 240, 159, 150, 150>>
    /\ target.val = sample.text

(***************************************************************************)
(* C6.  An integer outside the 32-bit signed range, passed to EncodeTo in  *)
(* an integer type it accepts, is rejected: EncodeTo returns an error.     *)
(***************************************************************************)
C6_OutOfRangeRejected ==
    (pc = "encoded" /\ term.type \in IntTypes /\ ~InInt32(TermValue(term)))
    => encErr # Nil

(***************************************************************************)
(* C7.  Canonical integer encoding: for an integer v of the 32-bit signed  *)
(* range, in any integer type EncodeTo accepts, EncodeTo appends tag 97    *)
(* and the byte v when 0 <= v <= 255, and otherwise tag 98 and the four    *)
(* bytes of v in two's complement, most significant first.                 *)
(***************************************************************************)
Canonical(v) ==
    IF ~v.neg /\ Len(v.mag) <= 1
    THEN <<97, IF Len(v.mag) = 0 THEN 0 ELSE v.mag[1]>>
    ELSE LET m == v.mag \o [i \in 1..(4 - Len(v.mag)) |-> 0]
         IN  <<98>> \o Reverse(IF v.neg THEN Neg(m) ELSE m)

C7_CanonicalInteger ==
    (pc = "encoded" /\ term.type \in IntTypes /\ InInt32(TermValue(term)))
    => (encErr = Nil /\ buf = Canonical(TermValue(term)))

C7_Witness ==
    /\ pc = "encoded"
    /\ term.type = "int8"
    /\ TermValue(term).neg
    /\ buf = <<TagInteger, 255, 255, 255, 128>>

ListForms == {"List", "ListOfBig"}

C10_BigIntegerExact ==
    (pc = "done" /\ before.kind \in {"Int", "Int64"} /\ sample.form = "BigInteger") =>
        /\ Whole => (err = Nil
                     /\ SignedValue(target.val) = Number(sample.sign = 1, sample.mag))
        /\ (Truncated /\ Len(input) >= 4) => err # Nil

\* the same for the magnitudes a 64-bit integer can hold without its sign bit
C10_BigIntegerSmall ==
    (/\ pc = "done"
     /\ before.kind \in {"Int", "Int64"}
     /\ sample.form = "BigInteger"
     /\ Whole
     /\ Len(Strip(sample.mag)) <= 7)
    => (err = Nil /\ SignedValue(target.val) = Number(sample.sign = 1, sample.mag))

====
